---- MODULE Spec2Model ----
(***************************************************************************)
(* flow: a terminal board whose cards are moved optimistically.  The       *)
(* foreground loop `run` (src/main.rs) owns the App (board, cursor,        *)
(* banner), the in-flight slot move_rx and the pending queue move_queue;   *)
(* each dispatched move runs in a worker thread (spawn_move) against the   *)
(* flat-file store (src/store_fs.rs) and reports one MoveOutcome over a    *)
(* channel.                                                                *)
(*                                                                         *)
(* Indices (app.col, app.row) are 0-based as in the source; TLA+ sequences *)
(* are 1-based, so column i of the source is columns[i + 1].               *)
(***************************************************************************)
EXTENDS Integers, Sequences, FiniteSets, TLC

VARIABLES
    app,         \* App { board, col, row, detail_open, banner }
    move_rx,     \* Option<Receiver<MoveOutcome>>: 0 is None, w > 0 the channel of worker w
    move_queue,  \* VecDeque<(String, String)>
    quitting,    \* bool
    pc,          \* position of `run`: "recv" (loop top), "input" (event::poll), "exited"
    last,        \* what the loop handled last: the try_recv arm or the Action read
    workers,     \* the threads created by spawn_move
    chan,        \* chan[w]: contents of the mpsc channel created for worker w
    store        \* the board directory: card files and order.txt of every column

vars == <<app, move_rx, move_queue, quitting, pc, last, workers, chan, store>>

----------------------------------------------------------------------------
(* Bounds of the model *)

\* Capacity of move_queue.  The source sets 64 (src/main.rs:100); the model
\* runs the same comparison with a small capacity so that the full queue is reached.
MAX_QUEUE_SIZE == 2

\* Size of the thread table: how many worker threads can exist at once.
MaxWorkers == 2

\* The largest step, in either direction, asked of focus and select.
MaxDelta == 3

\* The most columns a board drawn for AppSpec has.
MaxCols == 3

\* board.txt of the store: the column ids, in order.  The program never writes it.
ColumnIds == <<"a", "b">>

\* The card ids of the store.
CardIds == {"1", "2"}

ColSet == {ColumnIds[i] : i \in 1..Len(ColumnIds)}
WorkerIds == 1..MaxWorkers

Min(x, y) == IF x <= y THEN x ELSE y
Max(x, y) == IF x >= y THEN x ELSE y

----------------------------------------------------------------------------
(* model.rs: a Card is modelled by its id, a Column by id and cards *)

Column(id, cards) == [id |-> id, cards |-> cards]
Board(columns) == [columns |-> columns]

SeqToSet(s) == {s[i] : i \in 1..Len(s)}

\* Vec::remove(i), i 0-based
RemoveAt(s, i) == SubSeq(s, 1, i) \o SubSeq(s, i + 2, Len(s))

----------------------------------------------------------------------------
(* app.rs *)

\* Option<(String, String)>
NoMove == [some |-> FALSE, card_id |-> "", dst |-> ""]
SomeMove(card_id, dst) == [some |-> TRUE, card_id |-> card_id, dst |-> dst]

NoBanner == [text |-> "", n |-> 0, msg |-> <<>>]
Banner(text, n, msg) == [text |-> text, n |-> n, msg |-> msg]

\* App::new
AppNew(board) ==
    [board |-> board, col |-> 0, row |-> 0, detail_open |-> FALSE, banner |-> NoBanner]

reset_cursor(a) == [a EXCEPT !.col = 0, !.row = 0]

\* clamp_index that wraps around instead of stopping at the ends.
ClampIndexWraps(idx, delta, max) == (idx + delta) % (max + 1)

\* idx.saturating_sub(-delta) or (idx + delta).min(max)
clamp_index(idx, delta, max) ==
    IF delta < 0 THEN Max(idx - (0 - delta), 0) ELSE Min(idx + delta, max)

col_len(a) ==
    IF a.col < Len(a.board.columns) THEN Len(a.board.columns[a.col + 1].cards) ELSE 0

\* clamp_row that lets the row reach the length of the column.
ClampRowPastEnd(a) ==
    LET len == col_len(a)
    IN  [a EXCEPT !.row = IF len = 0 THEN 0 ELSE Min(a.row, len)]

clamp_row(a) ==
    LET len == col_len(a)
    IN  [a EXCEPT !.row = IF len = 0 THEN 0 ELSE Min(a.row, len - 1)]

\* dst_col that wraps around the ends of the board.
DstColWraps(a, dir) == (a.col + dir) % Len(a.board.columns)

\* Option<usize>: -1 is None
dst_col(a, dir) ==
    LET dst == a.col + dir
    IN  IF dst < 0 THEN -1
        ELSE IF dst < Len(a.board.columns) THEN dst ELSE -1

\* clamp that brings the column into range and leaves the row alone.
ClampColOnly(a) ==
    IF Len(a.board.columns) = 0 THEN reset_cursor(a)
    ELSE [a EXCEPT !.col = Min(a.col, Len(a.board.columns) - 1)]

\* clamp that moves a column beyond the board one step back per call.
ClampOneStep(a) ==
    IF Len(a.board.columns) = 0 THEN reset_cursor(a)
    ELSE clamp_row([a EXCEPT !.col =
                      IF a.col > Len(a.board.columns) - 1 THEN a.col - 1 ELSE a.col])

clamp(a) ==
    IF Len(a.board.columns) = 0 THEN reset_cursor(a)
    ELSE clamp_row([a EXCEPT !.col = Min(a.col, Len(a.board.columns) - 1)])

focus(a, delta) ==
    IF Len(a.board.columns) = 0 THEN reset_cursor(a)
    ELSE clamp_row([a EXCEPT !.col = clamp_index(a.col, delta, Len(a.board.columns) - 1)])

select(a, delta) ==
    LET len == col_len(a)
    IN  IF len = 0 THEN [a EXCEPT !.row = 0]
        ELSE [a EXCEPT !.row = clamp_index(a.row, delta, len - 1)]

\* apply in which CloseOrQuit requests quit whether or not the detail view is open.
ApplyCloseOrQuitQuits(a, act) ==
    CASE act \in {"Quit", "CloseOrQuit"} -> [app |-> a, quit |-> TRUE]
      [] act = "FocusLeft" -> [app |-> focus(a, -1), quit |-> FALSE]
      [] act = "FocusRight" -> [app |-> focus(a, 1), quit |-> FALSE]
      [] act = "SelectUp" -> [app |-> select(a, -1), quit |-> FALSE]
      [] act = "SelectDown" -> [app |-> select(a, 1), quit |-> FALSE]
      [] act = "ToggleDetail" ->
            [app |-> [a EXCEPT !.detail_open = ~a.detail_open], quit |-> FALSE]
      [] OTHER -> [app |-> a, quit |-> FALSE]

\* App::apply: the App afterwards and the returned bool (quit requested)
apply(a, act) ==
    CASE act = "Quit" -> [app |-> a, quit |-> TRUE]
      [] act = "CloseOrQuit" ->
            IF a.detail_open THEN [app |-> [a EXCEPT !.detail_open = FALSE], quit |-> FALSE]
            ELSE [app |-> a, quit |-> TRUE]
      [] act = "FocusLeft" -> [app |-> focus(a, -1), quit |-> FALSE]
      [] act = "FocusRight" -> [app |-> focus(a, 1), quit |-> FALSE]
      [] act = "SelectUp" -> [app |-> select(a, -1), quit |-> FALSE]
      [] act = "SelectDown" -> [app |-> select(a, 1), quit |-> FALSE]
      [] act = "ToggleDetail" ->
            [app |-> [a EXCEPT !.detail_open = ~a.detail_open], quit |-> FALSE]
      [] OTHER -> [app |-> a, quit |-> FALSE]

\* optimistic_move that leaves the card in its former column as well.
OptimisticMoveCopies(a, dir) ==
    IF Len(a.board.columns) = 0 THEN [app |-> a, ret |-> NoMove]
    ELSE
      LET c == clamp(a)
          dst == dst_col(c, dir)
          src == c.col
      IN  IF dst = -1 THEN [app |-> c, ret |-> NoMove]
          ELSE IF Len(c.board.columns[src + 1].cards) = 0 THEN [app |-> c, ret |-> NoMove]
          ELSE
            LET card == c.board.columns[src + 1].cards[c.row + 1]
                to_col_id == c.board.columns[dst + 1].id
                columns2 == [c.board.columns EXCEPT ![dst + 1].cards = Append(@, card)]
            IN  [app |-> [c EXCEPT !.board = Board(columns2),
                                   !.col = dst,
                                   !.row = Len(columns2[dst + 1].cards) - 1],
                 ret |-> SomeMove(card, to_col_id)]

\* optimistic_move that puts the card first in the destination column and
\* leaves the cursor there.
OptimisticMoveInsertsFirst(a, dir) ==
    IF Len(a.board.columns) = 0 THEN [app |-> a, ret |-> NoMove]
    ELSE
      LET c == clamp(a)
          dst == dst_col(c, dir)
          src == c.col
      IN  IF dst = -1 THEN [app |-> c, ret |-> NoMove]
          ELSE IF Len(c.board.columns[src + 1].cards) = 0 THEN [app |-> c, ret |-> NoMove]
          ELSE
            LET card == c.board.columns[src + 1].cards[c.row + 1]
                to_col_id == c.board.columns[dst + 1].id
                columns2 ==
                    [c.board.columns EXCEPT
                        ![src + 1].cards = RemoveAt(@, c.row),
                        ![dst + 1].cards = <<card>> \o @]
            IN  [app |-> [c EXCEPT !.board = Board(columns2), !.col = dst, !.row = 0],
                 ret |-> SomeMove(card, to_col_id)]

\* optimistic_move that takes the card with Vec::swap_remove: the last card of
\* the source column takes the place of the removed one.
OptimisticMoveSwapRemove(a, dir) ==
    IF Len(a.board.columns) = 0 THEN [app |-> a, ret |-> NoMove]
    ELSE
      LET c == clamp(a)
          dst == dst_col(c, dir)
          src == c.col
      IN  IF dst = -1 THEN [app |-> c, ret |-> NoMove]
          ELSE IF Len(c.board.columns[src + 1].cards) = 0 THEN [app |-> c, ret |-> NoMove]
          ELSE
            LET cards == c.board.columns[src + 1].cards
                card == cards[c.row + 1]
                to_col_id == c.board.columns[dst + 1].id
                swapped == [cards EXCEPT ![c.row + 1] = cards[Len(cards)]]
                columns2 ==
                    [c.board.columns EXCEPT
                        ![src + 1].cards = SubSeq(swapped, 1, Len(cards) - 1),
                        ![dst + 1].cards = Append(@, card)]
            IN  [app |-> [c EXCEPT !.board = Board(columns2),
                                   !.col = dst,
                                   !.row = Len(columns2[dst + 1].cards) - 1],
                 ret |-> SomeMove(card, to_col_id)]

\* App::optimistic_move: the App afterwards and the returned Option
optimistic_move(a, dir) ==
    IF Len(a.board.columns) = 0 THEN [app |-> a, ret |-> NoMove]
    ELSE
      LET c == clamp(a)
          dst == dst_col(c, dir)
          src == c.col
      IN  IF dst = -1 THEN [app |-> c, ret |-> NoMove]
          ELSE IF Len(c.board.columns[src + 1].cards) = 0 THEN [app |-> c, ret |-> NoMove]
          ELSE
            LET card == c.board.columns[src + 1].cards[c.row + 1]
                to_col_id == c.board.columns[dst + 1].id
                columns2 ==
                    [c.board.columns EXCEPT
                        ![src + 1].cards = RemoveAt(@, c.row),
                        ![dst + 1].cards = Append(@, card)]
            IN  [app |-> [c EXCEPT !.board = Board(columns2),
                                   !.col = dst,
                                   !.row = Len(columns2[dst + 1].cards) - 1],
                 ret |-> SomeMove(card, to_col_id)]

----------------------------------------------------------------------------
(* provider.rs, provider_local.rs: errors *)

\* io::Error, by its ErrorKind
IoOk == [ok |-> TRUE, kind |-> ""]
IoErr(kind) == [ok |-> FALSE, kind |-> kind]

\* ProviderError
NoErr == [kind |-> "", op |-> "", id |-> ""]
NotFound(id) == [kind |-> "NotFound", op |-> "", id |-> id]
Parse == [kind |-> "Parse", op |-> "", id |-> ""]
Io(op) == [kind |-> "Io", op |-> op, id |-> ""]

\* impl fmt::Display for ProviderError
to_string(e) ==
    CASE e.kind = "NotFound" -> <<"not found: ", e.id>>
      [] e.kind = "Parse" -> <<"parse error: ">>
      [] OTHER -> <<e.op, " failed for ">>

map_load_err(op, kind) ==
    IF kind = "InvalidData" THEN Parse ELSE Io(op)

\* map_move_err that reports a missing card as an I/O failure.
MapMoveErrAllIo(card_id, kind) ==
    IF kind = "InvalidData" THEN Parse ELSE Io("move_card")

map_move_err(card_id, kind) ==
    CASE kind = "NotFound" -> NotFound(card_id)
      [] kind = "InvalidData" -> Parse
      [] OTHER -> Io("move_card")

----------------------------------------------------------------------------
(* store_fs.rs.  store.files[c] is the set of card files <id>.md in      *)
(* cols/<c>, store.order[c] the lines of cols/<c>/order.txt (a missing   *)
(* order.txt reads as no lines).                                          *)

\* The points at which the file system can refuse an operation of move_card.
FailPoints == {"none", "list_columns", "rename", "order_remove", "order_append"}

\* The refusals the worker threads of Spec meet: none, or one that leaves the
\* directory as it was.
WorkerFailPoints == {"none", "rename"}

\* find_card_column: the first column whose directory holds <card_id>.md, "" for None
find_card_column(st, card_id) ==
    LET hits == {i \in 1..Len(ColumnIds) : card_id \in st.files[ColumnIds[i]]}
    IN  IF hits = {} THEN ""
        ELSE ColumnIds[CHOOSE i \in hits : \A j \in hits : i <= j]

\* load_cards: every id of order.txt is read from <id>.md of the same directory
load_cards(st, col_id) ==
    IF \A i \in 1..Len(st.order[col_id]) : st.order[col_id][i] \in st.files[col_id]
    THEN [res |-> IoOk, cards |-> st.order[col_id]]
    ELSE [res |-> IoErr("NotFound"), cards |-> <<>>]

\* store_fs::load_board; io_fail: the file system refuses a read
fs_load_board(st, io_fail) ==
    IF io_fail THEN [res |-> IoErr("Other"), board |-> Board(<<>>)]
    ELSE IF \E i \in 1..Len(ColumnIds) : ~load_cards(st, ColumnIds[i]).res.ok
    THEN [res |-> IoErr("NotFound"), board |-> Board(<<>>)]
    ELSE [res |-> IoOk,
          board |-> Board([i \in 1..Len(ColumnIds) |->
                        Column(ColumnIds[i], load_cards(st, ColumnIds[i]).cards)])]

\* order_remove: the lines other than id
order_remove(lines, id) == SelectSeq(lines, LAMBDA l : l # id)

\* order_append that writes the id as the first line.
OrderAppendFirst(lines, id) ==
    IF id \in SeqToSet(lines) THEN lines ELSE <<id>> \o lines

\* order_append: id appended unless already a line
order_append(lines, id) ==
    IF id \in SeqToSet(lines) THEN lines ELSE Append(lines, id)

\* store_fs::move_card; fail_at: the operation the file system refuses
fs_move_card(st, card_id, to_col_id, fail_at) ==
    IF fail_at = "list_columns" THEN [res |-> IoErr("Other"), store |-> st]
    ELSE
      LET src == find_card_column(st, card_id)
      IN  IF src = "" THEN [res |-> IoErr("NotFound"), store |-> st]
          ELSE IF src = to_col_id THEN [res |-> IoOk, store |-> st]
          ELSE IF fail_at = "rename" THEN [res |-> IoErr("Other"), store |-> st]
          ELSE
            LET renamed ==
                    [st EXCEPT !.files[src] = @ \ {card_id},
                               !.files[to_col_id] = @ \cup {card_id}]
                removed ==
                    [renamed EXCEPT !.order[src] = order_remove(@, card_id)]
                appended ==
                    [removed EXCEPT !.order[to_col_id] = order_append(@, card_id)]
            IN  IF fail_at = "order_remove" THEN [res |-> IoErr("Other"), store |-> renamed]
                ELSE IF fail_at = "order_append"
                THEN [res |-> IoErr("Other"), store |-> removed]
                ELSE [res |-> IoOk, store |-> appended]

\* LocalProvider::load_board
load_board(st, io_fail) ==
    LET r == fs_load_board(st, io_fail)
    IN  IF r.res.ok THEN [ok |-> TRUE, board |-> r.board, err |-> NoErr]
        ELSE [ok |-> FALSE, board |-> r.board, err |-> map_load_err("load_board", r.res.kind)]

\* LocalProvider::move_card
move_card(st, card_id, to_col_id, fail_at) ==
    LET r == fs_move_card(st, card_id, to_col_id, fail_at)
    IN  IF r.res.ok THEN [ok |-> TRUE, store |-> r.store, err |-> NoErr]
        ELSE [ok |-> FALSE, store |-> r.store, err |-> map_move_err(card_id, r.res.kind)]

----------------------------------------------------------------------------
(* main.rs: the worker thread of spawn_move and its channel *)

\* MoveOutcome = Result<Option<Board>, String>, and the two states of a
\* channel that holds no message
EmptyChan == [tag |-> "Empty", board |-> Board(<<>>), msg |-> <<>>]
Disconnected == [tag |-> "Disconnected", board |-> Board(<<>>), msg |-> <<>>]
OkNone == [tag |-> "OkNone", board |-> Board(<<>>), msg |-> <<>>]
OkSome(board) == [tag |-> "OkSome", board |-> board, msg |-> <<>>]
Err(msg) == [tag |-> "Err", board |-> Board(<<>>), msg |-> msg]

FreeWorker == [pc |-> "free", card_id |-> "", dst |-> "", move_err |-> NoErr]

\* tx.send(m) of worker w: the message is lost when the receiver was dropped
Send(w, m) == IF move_rx = w THEN [chan EXCEPT ![w] = m] ELSE chan

\* WorkerMove that reports a successful move and goes on to load and report again.
WorkerMoveSendsTwice(w) ==
    /\ workers[w].pc = "move"
    /\ \E fail_at \in WorkerFailPoints :
         LET r == move_card(store, workers[w].card_id, workers[w].dst, fail_at)
         IN  /\ store' = r.store
             /\ chan' = IF r.ok THEN Send(w, OkNone) ELSE chan
             /\ workers' = [workers EXCEPT ![w].pc = "load", ![w].move_err = r.err]
    /\ UNCHANGED <<app, move_rx, move_queue, quitting, pc, last>>

\* p.move_card(&card_id, &dst)
WorkerMove(w) ==
    /\ workers[w].pc = "move"
    /\ \E fail_at \in WorkerFailPoints :
         LET r == move_card(store, workers[w].card_id, workers[w].dst, fail_at)
         IN  /\ store' = r.store
             /\ IF r.ok
                THEN /\ chan' = Send(w, OkNone)
                     /\ workers' = [workers EXCEPT ![w] = FreeWorker]
                ELSE /\ chan' = chan
                     /\ workers' = [workers EXCEPT ![w].pc = "load", ![w].move_err = r.err]
    /\ UNCHANGED <<app, move_rx, move_queue, quitting, pc, last>>

\* WorkerLoad that reports the error of the failed load.
WorkerLoadReportsLoadErr(w) ==
    /\ workers[w].pc = "load"
    /\ \E io_fail \in BOOLEAN :
         LET r == load_board(store, io_fail)
         IN  chan' = Send(w, IF r.ok THEN OkSome(r.board) ELSE Err(to_string(r.err)))
    /\ workers' = [workers EXCEPT ![w] = FreeWorker]
    /\ UNCHANGED <<app, move_rx, move_queue, quitting, pc, last, store>>

\* Err(move_err) => match p.load_board()
WorkerLoad(w) ==
    /\ workers[w].pc = "load"
    /\ \E io_fail \in BOOLEAN :
         LET r == load_board(store, io_fail)
         IN  chan' = Send(w, IF r.ok THEN OkSome(r.board)
                             ELSE Err(to_string(workers[w].move_err)))
    /\ workers' = [workers EXCEPT ![w] = FreeWorker]
    /\ UNCHANGED <<app, move_rx, move_queue, quitting, pc, last, store>>

\* the provider panics; catch_unwind reports it
WorkerPanic(w) ==
    /\ workers[w].pc \in {"move", "load"}
    /\ chan' = Send(w, Err(<<"worker panicked">>))
    /\ workers' = [workers EXCEPT ![w] = FreeWorker]
    /\ UNCHANGED <<app, move_rx, move_queue, quitting, pc, last, store>>

\* the thread ends without sending: the Sender is dropped
WorkerDie(w) ==
    /\ workers[w].pc \in {"move", "load"}
    /\ chan' = Send(w, Disconnected)
    /\ workers' = [workers EXCEPT ![w] = FreeWorker]
    /\ UNCHANGED <<app, move_rx, move_queue, quitting, pc, last, store>>

----------------------------------------------------------------------------
(* main.rs: run *)

Actions ==
    {"Quit", "CloseOrQuit", "FocusLeft", "FocusRight", "SelectUp", "SelectDown",
     "MoveLeft", "MoveRight", "ToggleDetail", "Refresh"}

\* The keys pressed in Spec: every Action but ToggleDetail (the detail view
\* stays closed).
Keys == Actions \ {"ToggleDetail"}

\* What `last` records of an Action: the four cursor movements are one label.
Label(a) ==
    IF a \in {"FocusLeft", "FocusRight", "SelectUp", "SelectDown"} THEN "Nav" ELSE a

\* update_quit_banner that counts the queued moves only.
UpdateQuitBannerQueueOnly(banner, q, queue, move_in_flight) ==
    IF ~q THEN banner
    ELSE
      LET pending == Len(queue)
      IN  IF pending = 0 THEN NoBanner
          ELSE Banner("Finishing {pending} pending moves before quit...", pending, <<>>)

\* update_quit_banner: the banner afterwards
update_quit_banner(banner, q, queue, move_in_flight) ==
    IF ~q THEN banner
    ELSE
      LET pending == Len(queue) + (IF move_in_flight THEN 1 ELSE 0)
      IN  IF pending = 0 THEN NoBanner
          ELSE Banner("Finishing {pending} pending moves before quit...", pending, <<>>)

\* QueueFull with the comparison off by one.
QueueFullOffByOne(queue) == Len(queue) > MAX_QUEUE_SIZE

\* move_queue.len() >= MAX_QUEUE_SIZE
QueueFull(queue) == Len(queue) >= MAX_QUEUE_SIZE

\* ExitNow without the test of the in-flight slot.
ExitNowIgnoresInFlight(q, rx, queue) == q /\ queue = <<>>

\* if quitting && move_rx.is_none() && move_queue.is_empty() { return Ok(()) }
ExitNow(q, rx, queue) == q /\ rx = 0 /\ queue = <<>>

\* Dropping the Receiver held in move_rx destroys its channel.
DropRx(ch, rx) == IF rx = 0 THEN ch ELSE [ch EXCEPT ![rx] = EmptyChan]

\* Thread slots a new thread can take, `held` being the Receiver still held.
FreeSlots(held) == {w \in WorkerIds : workers[w].pc = "free" /\ w # held}

\* move_rx = Some(spawn_move(card_id, dst)): a new channel, a new thread that
\* owns its Sender, and the Receiver replaces the one held before
Dispatch(card_id, dst, held) ==
    /\ FreeSlots(held) # {}
    /\ LET w == CHOOSE x \in FreeSlots(held) : \A y \in FreeSlots(held) : x <= y
       IN  /\ workers' = [workers EXCEPT
                            ![w] = [pc |-> "move", card_id |-> card_id, dst |-> dst,
                                    move_err |-> NoErr]]
           /\ chan' = [DropRx(chan, held) EXCEPT ![w] = EmptyChan]
           /\ move_rx' = w

\* if let Some(rx) = move_rx.as_ref(): no Receiver is held
RecvIdle ==
    /\ move_rx = 0
    /\ last' = "NoRx"
    /\ pc' = IF ExitNow(quitting, move_rx, move_queue) THEN "exited" ELSE "input"
    /\ UNCHANGED <<app, move_rx, move_queue, quitting, workers, chan, store>>

\* RecvEmpty that passes over whatever the channel holds.
RecvEmptyAlways ==
    /\ move_rx # 0
    /\ last' = "Empty"
    /\ pc' = IF ExitNow(quitting, move_rx, move_queue) THEN "exited" ELSE "input"
    /\ UNCHANGED <<app, move_rx, move_queue, quitting, workers, chan, store>>

\* Err(TryRecvError::Empty) => {}
RecvEmpty ==
    /\ move_rx # 0
    /\ chan[move_rx].tag = "Empty"
    /\ last' = "Empty"
    /\ pc' = IF ExitNow(quitting, move_rx, move_queue) THEN "exited" ELSE "input"
    /\ UNCHANGED <<app, move_rx, move_queue, quitting, workers, chan, store>>

\* OnResync that keeps the queued moves.
OnResyncKeepsQueue ==
    /\ move_rx # 0
    /\ chan[move_rx].tag = "OkSome"
    /\ LET a1 == clamp([app EXCEPT !.board = chan[move_rx].board])
           a2 == [a1 EXCEPT !.banner =
                    Banner("Move failed: reloaded board (optimistic state corrected)",
                           0, <<>>)]
       IN  app' = [a2 EXCEPT !.banner = update_quit_banner(@, quitting, move_queue, FALSE)]
    /\ move_rx' = 0
    /\ chan' = DropRx(chan, move_rx)
    /\ last' = "Resync"
    /\ pc' = IF ExitNow(quitting, move_rx', move_queue) THEN "exited" ELSE "input"
    /\ UNCHANGED <<move_queue, quitting, workers, store>>

\* Ok(Ok(Some(board)))
OnResync ==
    /\ move_rx # 0
    /\ chan[move_rx].tag = "OkSome"
    /\ LET a1 == clamp([app EXCEPT !.board = chan[move_rx].board])
           a2 == [a1 EXCEPT !.banner =
                    Banner("Move failed: reloaded board (optimistic state corrected)",
                           0, <<>>)]
       IN  app' = [a2 EXCEPT !.banner = update_quit_banner(@, quitting, <<>>, FALSE)]
    /\ move_queue' = <<>>
    /\ move_rx' = 0
    /\ chan' = DropRx(chan, move_rx)
    /\ last' = "Resync"
    /\ pc' = IF ExitNow(quitting, move_rx', move_queue') THEN "exited" ELSE "input"
    /\ UNCHANGED <<quitting, workers, store>>

\* OnConfirmed that goes Idle and leaves the queued moves where they are.
OnConfirmedGoesIdle ==
    /\ move_rx # 0
    /\ chan[move_rx].tag = "OkNone"
    /\ move_rx' = 0
    /\ chan' = DropRx(chan, move_rx)
    /\ app' = [app EXCEPT !.banner =
                 update_quit_banner(NoBanner, quitting, move_queue, FALSE)]
    /\ last' = "Confirmed"
    /\ pc' = IF ExitNow(quitting, move_rx', move_queue) THEN "exited" ELSE "input"
    /\ UNCHANGED <<move_queue, quitting, workers, store>>

\* OnConfirmed that, while quitting, gives up the queued moves.
OnConfirmedAbandonsOnQuit ==
    /\ move_rx # 0
    /\ chan[move_rx].tag = "OkNone"
    /\ IF move_queue # <<>> /\ ~quitting
       THEN /\ move_queue' = Tail(move_queue)
            /\ Dispatch(Head(move_queue)[1], Head(move_queue)[2], 0)
            /\ app' = [app EXCEPT !.banner =
                         Banner("Moving... ({} queued)", Len(move_queue'), <<>>)]
       ELSE /\ move_queue' = <<>>
            /\ move_rx' = 0
            /\ chan' = DropRx(chan, move_rx)
            /\ workers' = workers
            /\ app' = [app EXCEPT !.banner = NoBanner]
    /\ last' = "Confirmed"
    /\ pc' = IF ExitNow(quitting, move_rx', move_queue') THEN "exited" ELSE "input"
    /\ UNCHANGED <<quitting, store>>

\* OnConfirmed that dispatches the head of the queue and leaves it queued.
OnConfirmedKeepsHead ==
    /\ move_rx # 0
    /\ chan[move_rx].tag = "OkNone"
    /\ IF move_queue # <<>>
       THEN /\ move_queue' = move_queue
            /\ Dispatch(Head(move_queue)[1], Head(move_queue)[2], 0)
            /\ app' = [app EXCEPT !.banner =
                         update_quit_banner(
                             Banner("Moving... ({} queued)", Len(move_queue'), <<>>),
                             quitting, move_queue', TRUE)]
       ELSE /\ move_queue' = move_queue
            /\ move_rx' = 0
            /\ chan' = DropRx(chan, move_rx)
            /\ workers' = workers
            /\ app' = [app EXCEPT !.banner =
                         update_quit_banner(NoBanner, quitting, move_queue, FALSE)]
    /\ last' = "Confirmed"
    /\ pc' = IF ExitNow(quitting, move_rx', move_queue') THEN "exited" ELSE "input"
    /\ UNCHANGED <<quitting, store>>

\* Ok(Ok(None))
OnConfirmed ==
    /\ move_rx # 0
    /\ chan[move_rx].tag = "OkNone"
    /\ IF move_queue # <<>>
       THEN /\ move_queue' = Tail(move_queue)
            /\ Dispatch(Head(move_queue)[1], Head(move_queue)[2], 0)
            /\ app' = [app EXCEPT !.banner =
                         update_quit_banner(
                             Banner("Moving... ({} queued)", Len(move_queue'), <<>>),
                             quitting, move_queue', TRUE)]
       ELSE /\ move_queue' = move_queue
            /\ move_rx' = 0
            /\ chan' = DropRx(chan, move_rx)
            /\ workers' = workers
            /\ app' = [app EXCEPT !.banner =
                         update_quit_banner(NoBanner, quitting, move_queue, FALSE)]
    /\ last' = "Confirmed"
    /\ pc' = IF ExitNow(quitting, move_rx', move_queue') THEN "exited" ELSE "input"
    /\ UNCHANGED <<quitting, store>>

\* OnRejected that rolls the board back to what the store holds.
OnRejectedRollsBack ==
    /\ move_rx # 0
    /\ chan[move_rx].tag = "Err"
    /\ app' = [clamp([app EXCEPT !.board = load_board(store, FALSE).board])
                 EXCEPT !.banner =
                   update_quit_banner(Banner("Move failed: {msg}", 0, chan[move_rx].msg),
                                      quitting, <<>>, FALSE)]
    /\ move_queue' = <<>>
    /\ move_rx' = 0
    /\ chan' = DropRx(chan, move_rx)
    /\ last' = "Rejected"
    /\ pc' = IF ExitNow(quitting, move_rx', move_queue') THEN "exited" ELSE "input"
    /\ UNCHANGED <<quitting, workers, store>>

\* Ok(Err(msg))
OnRejected ==
    /\ move_rx # 0
    /\ chan[move_rx].tag = "Err"
    /\ app' = [app EXCEPT !.banner =
                 update_quit_banner(Banner("Move failed: {msg}", 0, chan[move_rx].msg),
                                    quitting, <<>>, FALSE)]
    /\ move_queue' = <<>>
    /\ move_rx' = 0
    /\ chan' = DropRx(chan, move_rx)
    /\ last' = "Rejected"
    /\ pc' = IF ExitNow(quitting, move_rx', move_queue') THEN "exited" ELSE "input"
    /\ UNCHANGED <<quitting, workers, store>>

\* Err(TryRecvError::Disconnected): move_queue is not cleared
OnDisconnected ==
    /\ move_rx # 0
    /\ chan[move_rx].tag = "Disconnected"
    /\ app' = [app EXCEPT !.banner =
                 update_quit_banner(Banner("Move failed: worker disconnected", 0, <<>>),
                                    quitting, move_queue, FALSE)]
    /\ move_rx' = 0
    /\ chan' = DropRx(chan, move_rx)
    /\ last' = "Disconnected"
    /\ pc' = IF ExitNow(quitting, move_rx', move_queue) THEN "exited" ELSE "input"
    /\ UNCHANGED <<move_queue, quitting, workers, store>>

\* One pass over lines 104-143: the try_recv match, then the exit test.
PollOutcome ==
    /\ pc = "recv"
    /\ \/ RecvIdle
       \/ RecvEmpty
       \/ OnResync
       \/ OnConfirmed
       \/ OnRejected
       \/ OnDisconnected

\* MoveCmd that dispatches every move at once, in flight or not.
MoveCmdAlwaysDispatches(dir) ==
    LET r == optimistic_move(app, dir)
    IN  IF r.ret.some
        THEN /\ Dispatch(r.ret.card_id, r.ret.dst, move_rx)
             /\ app' = [r.app EXCEPT !.banner = Banner("Moving...", 0, <<>>)]
             /\ UNCHANGED move_queue
        ELSE /\ app' = r.app
             /\ UNCHANGED <<move_rx, move_queue, workers, chan>>

\* MoveCmd that applies the optimistic move before it looks at the queue.
MoveCmdMovesWhenFull(dir) ==
    LET r == optimistic_move(app, dir)
    IN  IF move_rx # 0
        THEN IF QueueFull(move_queue)
             THEN /\ app' = [r.app EXCEPT !.banner =
                               Banner("Move queue full - too many pending moves", 0, <<>>)]
                  /\ UNCHANGED <<move_rx, move_queue, workers, chan>>
             ELSE IF r.ret.some
                  THEN /\ move_queue' = Append(move_queue, <<r.ret.card_id, r.ret.dst>>)
                       /\ app' = [r.app EXCEPT !.banner =
                                    Banner("Moving... ({} queued)", Len(move_queue'), <<>>)]
                       /\ UNCHANGED <<move_rx, workers, chan>>
                  ELSE /\ app' = r.app
                       /\ UNCHANGED <<move_rx, move_queue, workers, chan>>
        ELSE IF r.ret.some
             THEN /\ Dispatch(r.ret.card_id, r.ret.dst, move_rx)
                  /\ app' = [r.app EXCEPT !.banner = Banner("Moving...", 0, <<>>)]
                  /\ UNCHANGED move_queue
             ELSE /\ app' = r.app
                  /\ UNCHANGED <<move_rx, move_queue, workers, chan>>

\* MoveCmd that queues a move even while nothing is in flight.
MoveCmdEnqueuesWhenIdle(dir) ==
    IF move_rx # 0 /\ QueueFull(move_queue)
    THEN /\ app' = [app EXCEPT !.banner =
                      Banner("Move queue full - too many pending moves", 0, <<>>)]
         /\ UNCHANGED <<move_rx, move_queue, workers, chan>>
    ELSE LET r == optimistic_move(app, dir)
         IN  IF r.ret.some
             THEN /\ move_queue' = Append(move_queue, <<r.ret.card_id, r.ret.dst>>)
                  /\ app' = [r.app EXCEPT !.banner =
                               Banner("Moving... ({} queued)", Len(move_queue'), <<>>)]
                  /\ UNCHANGED <<move_rx, workers, chan>>
             ELSE /\ app' = r.app
                  /\ UNCHANGED <<move_rx, move_queue, workers, chan>>

\* MoveCmd that puts a new move at the head of the queue.
MoveCmdQueuesAtHead(dir) ==
    IF move_rx # 0
    THEN IF QueueFull(move_queue)
         THEN /\ app' = [app EXCEPT !.banner =
                           Banner("Move queue full - too many pending moves", 0, <<>>)]
              /\ UNCHANGED <<move_rx, move_queue, workers, chan>>
         ELSE LET r == optimistic_move(app, dir)
              IN  IF r.ret.some
                  THEN /\ move_queue' = <<(<<r.ret.card_id, r.ret.dst>>)>> \o move_queue
                       /\ app' = [r.app EXCEPT !.banner =
                                    Banner("Moving... ({} queued)", Len(move_queue'), <<>>)]
                       /\ UNCHANGED <<move_rx, workers, chan>>
                  ELSE /\ app' = r.app
                       /\ UNCHANGED <<move_rx, move_queue, workers, chan>>
    ELSE LET r == optimistic_move(app, dir)
         IN  IF r.ret.some
             THEN /\ Dispatch(r.ret.card_id, r.ret.dst, move_rx)
                  /\ app' = [r.app EXCEPT !.banner = Banner("Moving...", 0, <<>>)]
                  /\ UNCHANGED move_queue
             ELSE /\ app' = r.app
                  /\ UNCHANGED <<move_rx, move_queue, workers, chan>>

\* Action::MoveLeft (dir = -1) and Action::MoveRight (dir = 1)
MoveCmd(dir) ==
    IF move_rx # 0
    THEN IF QueueFull(move_queue)
         THEN /\ app' = [app EXCEPT !.banner =
                           Banner("Move queue full - too many pending moves", 0, <<>>)]
              /\ UNCHANGED <<move_rx, move_queue, workers, chan>>
         ELSE LET r == optimistic_move(app, dir)
              IN  IF r.ret.some
                  THEN /\ move_queue' = Append(move_queue, <<r.ret.card_id, r.ret.dst>>)
                       /\ app' = [r.app EXCEPT !.banner =
                                    Banner("Moving... ({} queued)", Len(move_queue'), <<>>)]
                       /\ UNCHANGED <<move_rx, workers, chan>>
                  ELSE /\ app' = r.app
                       /\ UNCHANGED <<move_rx, move_queue, workers, chan>>
    ELSE LET r == optimistic_move(app, dir)
         IN  IF r.ret.some
             THEN /\ Dispatch(r.ret.card_id, r.ret.dst, move_rx)
                  /\ app' = [r.app EXCEPT !.banner = Banner("Moving...", 0, <<>>)]
                  /\ UNCHANGED move_queue
             ELSE /\ app' = r.app
                  /\ UNCHANGED <<move_rx, move_queue, workers, chan>>

\* InputMove that accepts move commands while quitting.
InputMoveWhileDraining(a) ==
    /\ a \in {"MoveLeft", "MoveRight"}
    /\ MoveCmd(IF a = "MoveLeft" THEN -1 ELSE 1)
    /\ pc' = "recv"
    /\ UNCHANGED <<quitting, store>>

\* if quitting { if matches!(a, MoveLeft | MoveRight) { continue; } }
InputMove(a) ==
    /\ a \in {"MoveLeft", "MoveRight"}
    /\ IF quitting
       THEN UNCHANGED <<app, move_rx, move_queue, workers, chan>>
       ELSE MoveCmd(IF a = "MoveLeft" THEN -1 ELSE 1)
    /\ pc' = "recv"
    /\ UNCHANGED <<quitting, store>>

\* InputRefresh that restarts the pipeline: the loaded board replaces the
\* queued moves as well.
InputRefreshDropsQueue(a) ==
    /\ a = "Refresh"
    /\ IF quitting
       THEN app' = app /\ move_queue' = move_queue
       ELSE \E io_fail \in BOOLEAN :
              LET r == load_board(store, io_fail)
              IN  /\ app' = IF r.ok
                            THEN [app EXCEPT !.board = r.board, !.col = 0, !.row = 0,
                                             !.banner = NoBanner]
                            ELSE [app EXCEPT !.banner =
                                    Banner("Refresh failed: {e}", 0, to_string(r.err))]
                  /\ move_queue' = IF r.ok THEN <<>> ELSE move_queue
    /\ pc' = "recv"
    /\ UNCHANGED <<move_rx, quitting, workers, chan, store>>

\* Action::Refresh
InputRefresh(a) ==
    /\ a = "Refresh"
    /\ IF quitting
       THEN app' = app
       ELSE \E io_fail \in BOOLEAN :
              LET r == load_board(store, io_fail)
              IN  app' = IF r.ok
                         THEN [app EXCEPT !.board = r.board, !.col = 0, !.row = 0,
                                          !.banner = NoBanner]
                         ELSE [app EXCEPT !.banner =
                                 Banner("Refresh failed: {e}", 0, to_string(r.err))]
    /\ pc' = "recv"
    /\ UNCHANGED <<move_rx, move_queue, quitting, workers, chan, store>>

\* InputOther that leaves the loop at every quit request.
InputOtherQuitsAtOnce(a) ==
    /\ a \notin {"MoveLeft", "MoveRight", "Refresh"}
    /\ LET r == apply(app, a)
       IN  /\ quitting' = quitting
           /\ app' = r.app
           /\ pc' = IF r.quit THEN "exited" ELSE "recv"
    /\ UNCHANGED <<move_rx, move_queue, workers, chan, store>>

\* _ => if app.apply(a) { ... }
InputOther(a) ==
    /\ a \notin {"MoveLeft", "MoveRight", "Refresh"}
    /\ LET r == apply(app, a)
       IN  IF r.quit
           THEN IF move_rx # 0 \/ move_queue # <<>>
                THEN /\ quitting' = TRUE
                     /\ app' = [r.app EXCEPT !.banner =
                                  update_quit_banner(@, TRUE, move_queue, move_rx # 0)]
                     /\ pc' = "recv"
                ELSE /\ quitting' = quitting
                     /\ app' = r.app
                     /\ pc' = "exited"
           ELSE /\ quitting' = quitting
                /\ app' = r.app
                /\ pc' = "recv"
    /\ UNCHANGED <<move_rx, move_queue, workers, chan, store>>

\* event::poll times out, or the event is no mapped key press
NoKey ==
    /\ last' = "NoKey"
    /\ pc' = "recv"
    /\ UNCHANGED <<app, move_rx, move_queue, quitting, workers, chan, store>>

\* One pass over lines 147-227: at most one Action is read and handled.
PollInput ==
    /\ pc = "input"
    /\ \/ NoKey
       \/ \E a \in Keys :
            /\ last' = Label(a)
            /\ \/ InputMove(a)
               \/ InputRefresh(a)
               \/ InputOther(a)

----------------------------------------------------------------------------

\* The board directory at startup: both cards in the first column.
InitStore ==
    [files |-> [c \in ColSet |-> IF c = ColumnIds[1] THEN CardIds ELSE {}],
     order |-> [c \in ColSet |-> IF c = ColumnIds[1] THEN <<"1", "2">> ELSE <<>>]]

\* run, lines 73-101: the board is loaded, App::new, nothing pending
Init ==
    /\ store = InitStore
    /\ app = AppNew(load_board(InitStore, FALSE).board)
    /\ move_rx = 0
    /\ move_queue = <<>>
    /\ quitting = FALSE
    /\ pc = "recv"
    /\ last = "Start"
    /\ workers = [w \in WorkerIds |-> FreeWorker]
    /\ chan = [w \in WorkerIds |-> EmptyChan]

Worker ==
    \E w \in WorkerIds :
        \/ WorkerMove(w)
        \/ WorkerLoad(w)
        \/ WorkerPanic(w)
        \/ WorkerDie(w)

Next ==
    \/ PollOutcome
    \/ PollInput
    \/ Worker

Spec == Init /\ [][Next]_vars

\* The loop runs on (event::poll returns within 50 ms) and the scheduler runs
\* every thread: no step that stays possible is put off for ever.
FairSpec ==
    /\ Spec
    /\ WF_vars(PollOutcome)
    /\ WF_vars(PollInput)
    /\ \A w \in WorkerIds :
         WF_vars(WorkerMove(w) \/ WorkerLoad(w) \/ WorkerPanic(w) \/ WorkerDie(w))

----------------------------------------------------------------------------
(* The App alone, under the calls `run` makes on it.  AppSpec draws the     *)
(* board (none to MaxCols columns, the cards spread over them in any order) *)
(* and applies the key handlers of App and the two places of `run` that     *)
(* replace the board; nothing is in flight and the store is not consulted.  *)

\* Column ids of the drawn boards, in board order.
BoardColumnIds == <<"a", "b", "c", "d">>

\* Vec<Card> of one column: the sequences of distinct cards
CardSeqs ==
    UNION {{q \in [1..n -> CardIds] : \A i, j \in 1..n : i # j => q[i] # q[j]}
             : n \in 0..Cardinality(CardIds)}

\* Board { columns }: n columns, no card in two columns
BoardsOf(n) ==
    {Board([i \in 1..n |-> Column(BoardColumnIds[i], cs[i])]) :
       cs \in {f \in [1..n -> CardSeqs] :
                 \A i, j \in 1..n : i # j => SeqToSet(f[i]) \cap SeqToSet(f[j]) = {}}}

AppBoards == UNION {BoardsOf(n) : n \in 0..MaxCols}

\* App::new(board) for a drawn board
AppInit ==
    /\ app \in {AppNew(b) : b \in AppBoards}
    /\ move_rx = 0
    /\ move_queue = <<>>
    /\ quitting = FALSE
    /\ pc = "input"
    /\ last = "Start"
    /\ workers = [w \in WorkerIds |-> FreeWorker]
    /\ chan = [w \in WorkerIds |-> EmptyChan]
    /\ store = InitStore

\* app.apply(a) for the keys that act on the App alone
AppKey(a) ==
    /\ a \in {"FocusLeft", "FocusRight", "SelectUp", "SelectDown", "ToggleDetail"}
    /\ app' = apply(app, a).app
    /\ last' = Label(a)
    /\ UNCHANGED <<move_rx, move_queue, quitting, pc, workers, chan, store>>

\* app.optimistic_move(dir); `last` tells whether it returned Some
AppMove(dir) ==
    /\ LET r == optimistic_move(app, dir)
       IN  /\ app' = r.app
           /\ last' = IF ~r.ret.some THEN "NoMove"
                      ELSE IF dir = -1 THEN "MoveLeft" ELSE "MoveRight"
    /\ UNCHANGED <<move_rx, move_queue, quitting, pc, workers, chan, store>>

\* app.board = board; app.clamp(); app.banner = Some(..) of the resync arm
AppResync(b) ==
    /\ app' = [clamp([app EXCEPT !.board = b]) EXCEPT !.banner =
                 Banner("Move failed: reloaded board (optimistic state corrected)",
                        0, <<>>)]
    /\ last' = "Resync"
    /\ UNCHANGED <<move_rx, move_queue, quitting, pc, workers, chan, store>>

\* app.board = b; app.col = 0; app.row = 0; app.banner = None of Action::Refresh
AppRefresh(b) ==
    /\ app' = [app EXCEPT !.board = b, !.col = 0, !.row = 0, !.banner = NoBanner]
    /\ last' = "Refresh"
    /\ UNCHANGED <<move_rx, move_queue, quitting, pc, workers, chan, store>>

AppNext ==
    \/ \E a \in Actions : AppKey(a)
    \/ \E dir \in {-1, 1} : AppMove(dir)
    \/ \E b \in AppBoards : AppResync(b)
    \/ \E b \in AppBoards : AppRefresh(b)

AppSpec == AppInit /\ [][AppNext]_vars

----------------------------------------------------------------------------
(* The loop with the detail view.  DetailSpec is Spec with other keys: the *)
(* four cursor movements are left out and ToggleDetail is pressed.          *)

DetailKeys == {"Quit", "CloseOrQuit", "ToggleDetail", "MoveLeft", "MoveRight", "Refresh"}

\* One pass over lines 147-227 with the keys of DetailKeys.
DetailPollInput ==
    /\ pc = "input"
    /\ \/ NoKey
       \/ \E a \in DetailKeys :
            /\ last' = Label(a)
            /\ \/ InputMove(a)
               \/ InputRefresh(a)
               \/ InputOther(a)

DetailNext ==
    \/ PollOutcome
    \/ DetailPollInput
    \/ Worker

DetailSpec == Init /\ [][DetailNext]_vars

----------------------------------------------------------------------------
(* The store alone, under the calls of LocalProvider.  StoreSpec draws a    *)
(* board directory in which every card file lies in one column and every    *)
(* order.txt lists the files of its column once each, and applies move_card *)
(* (the file system refusing any one operation, or none) and load_board.    *)
(* `last` records the call and what it returned.                            *)

\* The card ids of the drawn directories; a directory holds some of them.
StoreCardIds == CardIds \cup {"3"}

\* The contents of an order.txt: distinct ids, one per line
StoreCardSeqs ==
    UNION {{q \in [1..n -> StoreCardIds] : \A i, j \in 1..n : i # j => q[i] # q[j]}
             : n \in 0..Cardinality(StoreCardIds)}

\* The layout move_card and create_card keep: a card file in one column only,
\* listed once in the order.txt of that column, which lists nothing else.
Consistent(st) ==
    /\ \A c, e \in ColSet : c # e => st.files[c] \cap st.files[e] = {}
    /\ \A c \in ColSet :
         /\ SeqToSet(st.order[c]) = st.files[c]
         /\ Len(st.order[c]) = Cardinality(st.files[c])

ConsistentStores ==
    {st \in [files : [ColSet -> SUBSET StoreCardIds], order : [ColSet -> StoreCardSeqs]] :
       Consistent(st)}

\* What `last` holds in StoreSpec: the call, its arguments, the column the
\* card was found in, and the result.
StoreCall(op, card_id, src, dst, ok, err, board) ==
    [op |-> op, card_id |-> card_id, src |-> src, dst |-> dst,
     ok |-> ok, err |-> err, board |-> board]

StoreInit ==
    /\ store \in ConsistentStores
    /\ app = AppNew(Board(<<>>))
    /\ move_rx = 0
    /\ move_queue = <<>>
    /\ quitting = FALSE
    /\ pc = "input"
    /\ last = StoreCall("none", "", "", "", TRUE, NoErr, Board(<<>>))
    /\ workers = [w \in WorkerIds |-> FreeWorker]
    /\ chan = [w \in WorkerIds |-> EmptyChan]

\* LocalProvider::move_card(card_id, to_col_id)
StoreMove(card_id, to_col_id, fail_at) ==
    /\ LET r == move_card(store, card_id, to_col_id, fail_at)
       IN  /\ store' = r.store
           /\ last' = StoreCall("move_card", card_id, find_card_column(store, card_id),
                                to_col_id, r.ok, r.err, Board(<<>>))
    /\ UNCHANGED <<app, move_rx, move_queue, quitting, pc, workers, chan>>

\* LocalProvider::load_board()
StoreLoad(io_fail) ==
    /\ LET r == load_board(store, io_fail)
       IN  last' = StoreCall("load_board", "", "", "", r.ok, r.err, r.board)
    /\ UNCHANGED <<app, move_rx, move_queue, quitting, pc, workers, chan, store>>

StoreNext ==
    \/ \E card_id \in StoreCardIds, to_col_id \in ColSet, fail_at \in FailPoints :
         StoreMove(card_id, to_col_id, fail_at)
    \/ \E io_fail \in BOOLEAN : StoreLoad(io_fail)

StoreSpec == StoreInit /\ [][StoreNext]_vars

----------------------------------------------------------------------------
(* The App moving cards alone.  MoveSpec is AppSpec on boards of three      *)
(* cards, the board being changed by optimistic_move only, so that a column *)
(* keeps two cards when one is taken out of it.                             *)

\* Board { columns }: n columns over three cards, no card in two columns
MoveBoardsOf(n) ==
    {Board([i \in 1..n |-> Column(BoardColumnIds[i], cs[i])]) :
       cs \in {f \in [1..n -> StoreCardSeqs] :
                 \A i, j \in 1..n : i # j => SeqToSet(f[i]) \cap SeqToSet(f[j]) = {}}}

MoveBoards == UNION {MoveBoardsOf(n) : n \in 0..MaxCols}

\* App::new(board) for a drawn board
MoveInit ==
    /\ app \in {AppNew(b) : b \in MoveBoards}
    /\ move_rx = 0
    /\ move_queue = <<>>
    /\ quitting = FALSE
    /\ pc = "input"
    /\ last = "Start"
    /\ workers = [w \in WorkerIds |-> FreeWorker]
    /\ chan = [w \in WorkerIds |-> EmptyChan]
    /\ store = InitStore

MoveNext ==
    \/ \E a \in Actions : AppKey(a)
    \/ \E dir \in {-1, 1} : AppMove(dir)

MoveSpec == MoveInit /\ [][MoveNext]_vars

----------------------------------------------------------------------------
(* The loop over a store that refuses nothing to the worker.  ConfirmSpec   *)
(* is Spec in which every worker thread finds move_card succeeding, so that *)
(* every outcome is Ok(None).                                               *)

\* p.move_card(&card_id, &dst) returning Ok(())
WorkerMoveOk(w) ==
    /\ WorkerMove(w)
    /\ workers'[w].pc = "free"

ConfirmNext ==
    \/ PollOutcome
    \/ PollInput
    \/ \E w \in WorkerIds : WorkerMoveOk(w)

ConfirmSpec == Init /\ [][ConfirmNext]_vars

----------------------------------------------------------------------------
(* Vocabulary of the properties *)

\* The threads of spawn_move that have not finished.
Live == {w \in WorkerIds : workers[w].pc # "free"}

\* A step of the loop that handles the outcome `tag` read from the held Receiver.
Handles(tag) ==
    /\ pc = "recv"
    /\ pc' # "recv"
    /\ move_rx # 0
    /\ chan[move_rx].tag = tag

\* A step of the loop that handles the key whose label is in `labels`.
Reads(labels) ==
    /\ pc = "input"
    /\ pc' # "input"
    /\ last' \in labels

\* A step in which spawn_move creates the thread of slot w.
Spawned(w) == workers[w].pc = "free" /\ workers'[w].pc = "move"

\* The cursor section 4.3 of the specification prescribes for `board`.
ClampedCursor(board, col, row) ==
    IF Len(board.columns) = 0 THEN <<0, 0>>
    ELSE LET c == Min(col, Len(board.columns) - 1)
             n == Len(board.columns[c + 1].cards)
         IN  <<c, IF n = 0 THEN 0 ELSE Min(row, n - 1)>>

----------------------------------------------------------------------------
(* C1 *)

\* C1: in every reachable state at most one worker thread is unfinished, and it
\* is the one whose Receiver the loop holds in move_rx; a thread is only created
\* while no other is unfinished.
C1_OneWorkerInFlight ==
    /\ Cardinality(Live) <= 1
    /\ \A w \in Live : move_rx = w

\* A worker is busy with the store while further moves wait in the queue.
C1_Witness ==
    /\ move_rx # 0
    /\ workers[move_rx].pc = "load"
    /\ Len(move_queue) = MAX_QUEUE_SIZE

----------------------------------------------------------------------------
(* C2 *)

\* C2: pending moves reach the worker in the order in which they were applied:
\* a move is appended at the tail of the queue, a thread is created either for
\* the head of the queue, which is popped, or, for a move just applied, only
\* while no earlier move waits in the queue.
C2_FifoDispatch ==
    [][ /\ \A w \in WorkerIds :
             Spawned(w) =>
               IF move_queue # <<>>
               THEN /\ <<workers'[w].card_id, workers'[w].dst>> = Head(move_queue)
                    /\ move_queue' = Tail(move_queue)
               ELSE move_queue' = <<>>
        /\ Len(move_queue') > Len(move_queue) =>
             SubSeq(move_queue', 1, Len(move_queue)) = move_queue
      ]_vars

----------------------------------------------------------------------------
(* C3 *)

\* C3: in every reachable state a non-empty queue implies a move in flight
\* (the orchestrator is Idle, or Busy/Draining with exactly one move in flight).
C3_QueueImpliesInFlight == move_queue # <<>> => move_rx # 0

----------------------------------------------------------------------------
(* C4 *)

\* C4: handling Rejected-with-resync replaces the board by the snapshot, clamps
\* the cursor against it, empties the queue, clears the in-flight slot and
\* creates no thread, whatever the queue held.
C4_ResyncReplaces ==
    [][ Handles("OkSome") =>
          /\ app'.board = chan[move_rx].board
          /\ <<app'.col, app'.row>> = ClampedCursor(chan[move_rx].board, app.col, app.row)
          /\ move_queue' = <<>>
          /\ move_rx' = 0
          /\ workers' = workers
      ]_vars

\* A resync snapshot is about to be handled while the queue is full and the
\* cursor lies outside the snapshot's focused column.
C4_Witness ==
    /\ pc = "recv"
    /\ move_rx # 0
    /\ chan[move_rx].tag = "OkSome"
    /\ Len(move_queue) = MAX_QUEUE_SIZE
    /\ <<app.col, app.row>> # ClampedCursor(chan[move_rx].board, app.col, app.row)
    /\ app.board # chan[move_rx].board

----------------------------------------------------------------------------
(* C5 *)

\* C5: handling a disconnected channel shows the error notice, empties the
\* queue, clears the in-flight slot and leaves the loop Idle, or exited if
\* it was quitting.
C5_DisconnectDiscardsQueue ==
    [][ Handles("Disconnected") =>
          /\ move_queue' = <<>>
          /\ move_rx' = 0
          /\ pc' = IF quitting THEN "exited" ELSE "input"
          /\ ~quitting =>
               app'.banner = Banner("Move failed: worker disconnected", 0, <<>>)
      ]_vars

----------------------------------------------------------------------------
(* C6 *)

\* C6 as stated: handling Rejected-opaque sets the notice to the raw error,
\* empties the queue, clears the in-flight slot, leaves the loop Idle (exited
\* if it was quitting) and leaves board and cursor as they were.
C6_RejectedAsStated ==
    [][ Handles("Err") =>
          /\ app'.banner = Banner("Move failed: {msg}", 0, chan[move_rx].msg)
          /\ move_queue' = <<>>
          /\ move_rx' = 0
          /\ pc' = IF quitting THEN "exited" ELSE "input"
          /\ app'.board = app.board
          /\ <<app'.col, app'.row>> = <<app.col, app.row>>
      ]_vars

\* C6 amended: as stated, except that while quitting the notice is cleared
\* (update_quit_banner finds nothing pending) and not set to the raw error.
C6_RejectedKeepsBoard ==
    [][ Handles("Err") =>
          /\ app'.banner = IF quitting THEN NoBanner
                           ELSE Banner("Move failed: {msg}", 0, chan[move_rx].msg)
          /\ move_queue' = <<>>
          /\ move_rx' = 0
          /\ pc' = IF quitting THEN "exited" ELSE "input"
          /\ app'.board = app.board
          /\ <<app'.col, app'.row>> = <<app.col, app.row>>
      ]_vars

\* The error of a failed move whose reload failed too is about to be handled
\* while quitting, with a full queue and a board that differs from the store's.
C6_Witness ==
    /\ pc = "recv"
    /\ move_rx # 0
    /\ chan[move_rx] = Err(to_string(Io("move_card")))
    /\ quitting
    /\ Len(move_queue) = MAX_QUEUE_SIZE
    /\ app.board # load_board(store, FALSE).board

----------------------------------------------------------------------------
(* C7 *)

----------------------------------------------------------------------------
(* C8 *)

\* C8: in every reachable state the queue holds at most MAX_QUEUE_SIZE moves.
C8_QueueBounded == Len(move_queue) <= MAX_QUEUE_SIZE

\* The queue is at capacity and a further move command has just been read.
C8_Witness ==
    /\ Len(move_queue) = MAX_QUEUE_SIZE
    /\ last \in {"MoveLeft", "MoveRight"}
    /\ pc = "recv"
    /\ ~quitting

----------------------------------------------------------------------------
(* C9 *)

\* C9: the loop exits only with the in-flight slot and the queue both empty,
\* and a quit requested while Idle exits at once.
C9_ExitOnlyWhenDrained ==
    [][ /\ pc' = "exited" => (move_rx' = 0 /\ move_queue' = <<>>)
        /\ ( /\ Reads({"Quit", "CloseOrQuit"})
             /\ (last' = "CloseOrQuit" => ~app.detail_open)
             /\ move_rx = 0
             /\ move_queue = <<>> )
           => pc' = "exited"
      ]_vars

\* The loop has exited after a drain: quit was requested while Busy and the
\* last outcome emptied slot and queue.
C9_Witness ==
    /\ pc = "exited"
    /\ quitting
    /\ last = "Confirmed"

----------------------------------------------------------------------------
(* C10 *)

\* C10: once a quit has been requested the loop eventually exits, every
\* dispatched worker eventually sending an outcome or disconnecting.
C10_QuitEventuallyExits == quitting ~> (pc = "exited")

----------------------------------------------------------------------------
(* C11 *)

\* C11: while quitting, a MoveLeft or MoveRight command leaves the board, the
\* cursor, the queue and the in-flight slot as they were and creates no thread.
C11_DrainIgnoresMoves ==
    [][ (Reads({"MoveLeft", "MoveRight"}) /\ quitting)
        => /\ app'.board = app.board
           /\ <<app'.col, app'.row>> = <<app.col, app.row>>
           /\ move_queue' = move_queue
           /\ move_rx' = move_rx
           /\ workers' = workers
      ]_vars

\* A MoveRight has just been read while quitting, with room in the queue and
\* a focused card that could have moved right.
C11_Witness ==
    /\ quitting
    /\ last = "MoveRight"
    /\ pc = "recv"
    /\ move_rx # 0
    /\ Len(move_queue) < MAX_QUEUE_SIZE
    /\ optimistic_move(app, 1).ret.some

----------------------------------------------------------------------------
(* C12 *)

\* C12: a quit requested while a move is in flight does not leave the loop but
\* sets quitting, which stays set; a quit requested while quitting changes
\* neither the queue, the in-flight slot, the board nor the cursor.
C12_QuitWhileBusyDrains ==
    [][ /\ ( /\ Reads({"Quit", "CloseOrQuit"})
             /\ (last' = "CloseOrQuit" => ~app.detail_open)
             /\ move_rx # 0 )
           => (quitting' /\ pc' = "recv")
        /\ quitting => quitting'
        /\ (Reads({"Quit", "CloseOrQuit"}) /\ quitting)
           => /\ move_queue' = move_queue
              /\ move_rx' = move_rx
              /\ workers' = workers
              /\ app'.board = app.board
              /\ <<app'.col, app'.row>> = <<app.col, app.row>>
      ]_vars

\* Quit has just been read with a move in flight and a full queue behind it:
\* the loop is back at its top, quitting.
C12_Witness ==
    /\ quitting
    /\ last = "Quit"
    /\ pc = "recv"
    /\ move_rx # 0
    /\ Len(move_queue) = MAX_QUEUE_SIZE

----------------------------------------------------------------------------
(* C13 *)

\* C13: handling Confirmed with a non-empty queue pops the head, creates the
\* thread of that move in the same step and keeps a move in flight, the queue
\* being shorter by exactly one; with an empty queue it clears the in-flight
\* slot and, unless quitting, the notice.  Board and cursor are unchanged.
C13_ConfirmedPopsHead ==
    [][ Handles("OkNone") =>
          /\ IF move_queue # <<>>
             THEN /\ move_queue' = Tail(move_queue)
                  /\ Len(move_queue') = Len(move_queue) - 1
                  /\ move_rx' # 0
                  /\ Spawned(move_rx')
                  /\ <<workers'[move_rx'].card_id, workers'[move_rx'].dst>>
                       = Head(move_queue)
                  /\ pc' = "input"
             ELSE /\ move_queue' = <<>>
                  /\ move_rx' = 0
                  /\ workers' = workers
                  /\ ~quitting => (app'.banner = NoBanner /\ pc' = "input")
          /\ app'.board = app.board
          /\ <<app'.col, app'.row>> = <<app.col, app.row>>
      ]_vars

\* Confirmed has just been handled, not quitting, with a queue that was at
\* capacity: its head is in flight and one move fewer waits.
C13_Witness ==
    /\ last = "Confirmed"
    /\ pc = "input"
    /\ ~quitting
    /\ move_rx # 0
    /\ workers[move_rx].pc = "move"
    /\ Len(move_queue) = MAX_QUEUE_SIZE - 1

----------------------------------------------------------------------------
(* C14 *)

\* C14: from the quit request on, the queue changes only by a Confirmed outcome
\* popping its head, for which a thread is created in that step, or by a
\* failure outcome clearing it; no thread is created for anything but the head
\* of the queue; and the loop exits only with the queue and the in-flight slot
\* empty.  So, while every outcome is Confirmed, every queued move is
\* dispatched, one at a time and in queue order, before the loop exits.
C14_DrainDispatchesQueue ==
    [][ /\ (quitting' /\ move_queue' # move_queue)
           => \/ /\ Handles("OkNone")
                 /\ move_queue' = Tail(move_queue)
                 /\ move_rx' # 0
                 /\ Spawned(move_rx')
                 /\ <<workers'[move_rx'].card_id, workers'[move_rx'].dst>>
                      = Head(move_queue)
              \/ /\ Handles("OkSome") \/ Handles("Err")
                 /\ move_queue' = <<>>
        /\ (quitting' /\ \E w \in WorkerIds : Spawned(w))
           => /\ Handles("OkNone")
              /\ move_queue # <<>>
              /\ Cardinality({w \in WorkerIds : Spawned(w)}) = 1
        /\ (quitting' /\ pc' = "exited") => (move_queue' = <<>> /\ move_rx' = 0)
      ]_vars

\* While quitting, Confirmed has just been handled: the head of the queue is
\* in flight and a further move still waits behind it.
C14_Witness ==
    /\ quitting
    /\ last = "Confirmed"
    /\ pc = "input"
    /\ move_rx # 0
    /\ workers[move_rx].pc = "move"
    /\ move_queue # <<>>

----------------------------------------------------------------------------
(* C15 *)

\* C15: the dispatch in flight has either an unfinished thread and an empty
\* channel, or a finished thread and exactly one event (an outcome or the
\* disconnection) in its channel, and no other channel holds anything; an
\* event enters a channel once, from the thread of that dispatch as it ends;
\* and the loop, handling an event, gives up that channel (the slot is cleared
\* or taken by a new dispatch with a new channel), so that no event is handled
\* twice or for another dispatch.
C15_OneEventPerDispatch ==
    /\ [](\A w \in WorkerIds :
            IF move_rx = w
            THEN (workers[w].pc = "free") <=> (chan[w].tag # "Empty")
            ELSE workers[w].pc = "free" /\ chan[w] = EmptyChan)
    /\ [][ /\ \A w \in WorkerIds :
                (chan'[w] # chan[w] /\ chan'[w].tag # "Empty")
                => /\ chan[w].tag = "Empty"
                   /\ move_rx = w
                   /\ workers[w].pc # "free"
                   /\ workers'[w].pc = "free"
           /\ (pc = "recv" /\ pc' # "recv" /\ move_rx # 0 /\ chan[move_rx].tag # "Empty")
              => /\ move_rx' = 0 \/ Spawned(move_rx')
                 /\ \A w \in WorkerIds : chan'[w] = EmptyChan
         ]_vars

\* Right after a Confirmed was handled and the next move dispatched, the
\* outcome of that next dispatch already waits in the new channel.
C15_Witness ==
    /\ last = "Confirmed"
    /\ pc = "input"
    /\ move_rx # 0
    /\ chan[move_rx].tag = "OkNone"
    /\ workers[move_rx].pc = "free"

----------------------------------------------------------------------------
(* C16 *)

\* C16: a worker thread that does not panic reports what the store answers.
\* When move_card succeeds it sends Confirmed and ends without loading; when
\* move_card fails it keeps the error and loads the board, once: it sends the
\* loaded snapshot when the load succeeds and the text of the error of the
\* failed move, not of the failed load, when the load fails.
C16_OutcomeFollowsStore ==
    [][ \A w \in WorkerIds :
          LET panics == chan'[w] \in {Disconnected, Err(<<"worker panicked">>)}
          IN  /\ (workers[w].pc = "move" /\ workers'[w] # workers[w] /\ ~panics)
                 => \E fail_at \in FailPoints :
                      LET r == move_card(store, workers[w].card_id, workers[w].dst, fail_at)
                      IN  /\ store' = r.store
                          /\ IF r.ok
                             THEN /\ chan'[w] = OkNone
                                  /\ workers'[w].pc = "free"
                             ELSE /\ chan'[w] = chan[w]
                                  /\ workers'[w].pc = "load"
                                  /\ workers'[w].move_err = r.err
              /\ (workers[w].pc = "load" /\ workers'[w] # workers[w] /\ ~panics)
                 => /\ workers'[w].pc = "free"
                    /\ store' = store
                    /\ workers[w].move_err # NoErr
                    /\ \E io_fail \in BOOLEAN :
                         LET r == load_board(store, io_fail)
                         IN  chan'[w] = IF r.ok THEN OkSome(r.board)
                                        ELSE Err(to_string(workers[w].move_err))
              /\ (chan'[w] # chan[w] /\ chan'[w].tag = "OkNone") => workers[w].pc = "move"
              /\ (chan'[w] # chan[w] /\ chan'[w].tag = "OkSome") => workers[w].pc = "load"
      ]_vars

\* A worker whose move failed has loaded the board and sent the snapshot, which
\* is what the store holds and differs from the optimistic board.
C16_Witness ==
    /\ move_rx # 0
    /\ workers[move_rx].pc = "free"
    /\ chan[move_rx].tag = "OkSome"
    /\ chan[move_rx].board = load_board(store, FALSE).board
    /\ chan[move_rx].board # app.board

----------------------------------------------------------------------------
(* C17 *)

\* C17: an outcome (resync, error or confirmation) that waits in the channel
\* when a cycle starts is handled by the first step of that cycle: the board
\* replacement, the cursor clamp and the queue changes are made before the
\* loop reaches the point where it reads a key, and only there is a move
\* command interpreted (nothing is enqueued and the cursor is not moved by a
\* key anywhere else).
C17_OutcomeBeforeInput ==
    [][ /\ ( /\ pc = "recv"
             /\ pc' # "recv"
             /\ move_rx # 0
             /\ chan[move_rx].tag \in {"OkSome", "OkNone", "Err"} )
           => /\ last' = ( CASE chan[move_rx].tag = "OkSome" -> "Resync"
                             [] chan[move_rx].tag = "OkNone" -> "Confirmed"
                             [] OTHER -> "Rejected" )
              /\ chan[move_rx].tag = "OkSome"
                 => /\ app'.board = chan[move_rx].board
                    /\ <<app'.col, app'.row>>
                         = ClampedCursor(chan[move_rx].board, app.col, app.row)
                    /\ move_queue' = <<>>
              /\ chan[move_rx].tag = "Err" => move_queue' = <<>>
              /\ chan[move_rx].tag = "OkNone"
                 => move_queue' = IF move_queue = <<>> THEN <<>> ELSE Tail(move_queue)
              /\ move_rx' = 0 \/ Spawned(move_rx')
        /\ (pc # "input" /\ pc' = "input") => pc = "recv"
        /\ (pc = "input" /\ pc' # "input") => pc' \in {"recv", "exited"}
        /\ pc # "input"
           => /\ Len(move_queue') <= Len(move_queue)
              /\ ( \/ <<app'.col, app'.row>> # <<app.col, app.row>>
                   \/ app'.board # app.board ) => Handles("OkSome")
      ]_vars

\* The loop is about to read a key in a cycle that began by handling a resync,
\* and the focused card can move right: a MoveRight is interpreted against the
\* replaced board and the clamped cursor.
C17_Witness ==
    /\ pc = "input"
    /\ last = "Resync"
    /\ ~quitting
    /\ app.banner = Banner("Move failed: reloaded board (optimistic state corrected)",
                           0, <<>>)
    /\ optimistic_move(app, 1).ret.some

----------------------------------------------------------------------------
(* C18 *)

\* C18: after any sequence of navigation keys, move commands, Refresh and
\* board replacements by resync, a board with at least one column has col a
\* valid column index and row a valid index into the focused column, or 0 if
\* that column is empty; on a board without columns the cursor is (0, 0).
C18_CursorValid ==
    IF Len(app.board.columns) = 0
    THEN <<app.col, app.row>> = <<0, 0>>
    ELSE /\ app.col \in 0..(Len(app.board.columns) - 1)
         /\ LET n == Len(app.board.columns[app.col + 1].cards)
            IN  IF n = 0 THEN app.row = 0 ELSE app.row \in 0..(n - 1)

\* A resync has just replaced the board by one in which the focused column is
\* the last one and holds a single card, below which the cursor cannot stay.
C18_Witness ==
    /\ last = "Resync"
    /\ Len(app.board.columns) = MaxCols
    /\ app.col = MaxCols - 1
    /\ Len(app.board.columns[MaxCols].cards) = 1
    /\ app.row = 0

----------------------------------------------------------------------------
(* C19 *)

\* C19: whenever optimistic_move(d), d in {-1, 1}, returns a move, the card
\* that was at the cursor is gone from its former column (the other cards
\* keeping their order), is the last card of the column next to it in
\* direction d, every other column is as it was, the cursor is (destination
\* index, last index of the destination) and the returned pair is (id of the
\* card, id of the destination column).  On [a: [1, 2], b: []] with the
\* cursor at (0, 0), moving right gives cursor (1, 0), a: [2], b: [1].
C19_MoveLandsLast ==
    /\ \A d \in {-1, 1} :
         LET r == optimistic_move(app, d)
             src == app.col + 1
             dst == app.col + d + 1
             old == app.board.columns
             new == r.app.board.columns
         IN  r.ret.some =>
               LET card == old[src].cards[app.row + 1]
               IN  /\ dst \in 1..Len(old)
                   /\ Len(new) = Len(old)
                   /\ card \notin SeqToSet(new[src].cards)
                   /\ new[src].cards = RemoveAt(old[src].cards, app.row)
                   /\ new[dst].cards = Append(old[dst].cards, card)
                   /\ \A i \in 1..Len(old) : i \notin {src, dst} => new[i] = old[i]
                   /\ \A i \in 1..Len(old) : new[i].id = old[i].id
                   /\ <<r.app.col, r.app.row>> = <<dst - 1, Len(new[dst].cards) - 1>>
                   /\ r.ret = SomeMove(card, old[dst].id)
    /\ LET r == optimistic_move(
                    AppNew(Board(<<Column("a", <<"1", "2">>), Column("b", <<>>)>>)), 1)
       IN  /\ <<r.app.col, r.app.row>> = <<1, 0>>
           /\ r.app.board = Board(<<Column("a", <<"2">>), Column("b", <<"1">>)>>)
           /\ r.ret = SomeMove("1", "b")

\* optimistic_move(1) has just returned a move from a column in the middle of
\* the board into a column that held a card already.
C19_Witness ==
    /\ last = "MoveRight"
    /\ app.col >= 2
    /\ app.row = 1
    /\ Len(app.board.columns[app.col + 1].cards) = 2

----------------------------------------------------------------------------
(* C20 *)

----------------------------------------------------------------------------
(* C21 *)

\* C21: the boards obtained from the store having each card id in at most one
\* column, the in-memory board has, after any sequence of optimistic moves,
\* refreshes and resyncs, each card id in at most one column and at most once
\* in it.
C21_CardInOneColumn ==
    \A id \in CardIds :
      Cardinality({<<i, k>> \in (1..Len(app.board.columns)) \X (1..Cardinality(CardIds)) :
                     /\ k <= Len(app.board.columns[i].cards)
                     /\ app.board.columns[i].cards[k] = id}) <= 1

\* optimistic_move(-1) has just put a card into a column that held the other
\* card already.
C21_Witness ==
    /\ last = "MoveLeft"
    /\ Len(app.board.columns[app.col + 1].cards) = Cardinality(CardIds)
    /\ app.row = Cardinality(CardIds) - 1

----------------------------------------------------------------------------
(* C22 *)

\* C22: for every board and every cursor, in range or not, clamp gives (0, 0)
\* on a board without columns and otherwise col = min(col, columns - 1) and
\* row = 0 if the column then focused is empty, min(row, len - 1) if not;
\* the result is an index in range and the board is as it was.
C22_ClampBounds ==
    \A b \in AppBoards :
      LET c == clamp([app EXCEPT !.board = b])
          n == Len(b.columns)
      IN  /\ c.board = b
          /\ IF n = 0 THEN <<c.col, c.row>> = <<0, 0>>
             ELSE /\ c.col = Min(app.col, n - 1)
                  /\ c.col \in 0..(n - 1)
                  /\ LET len == Len(b.columns[c.col + 1].cards)
                     IN  IF len = 0 THEN c.row = 0
                         ELSE c.row = Min(app.row, len - 1) /\ c.row \in 0..(len - 1)

\* The cursor is on the second card of the last column of a full-width board:
\* against every smaller board it is out of range in column and in row.
C22_Witness ==
    /\ Len(app.board.columns) = MaxCols
    /\ app.col = MaxCols - 1
    /\ app.row = 1
    /\ last = "Nav"

----------------------------------------------------------------------------
(* C23 *)

\* C23: clamp leaves a cursor that satisfies the cursor invariant as it is,
\* and clamp(clamp(s)) = clamp(s) for every board and every cursor.
C23_ClampIdempotent ==
    /\ clamp(app) = app
    /\ \A b \in AppBoards :
         LET s == [app EXCEPT !.board = b]
         IN  clamp(clamp(s)) = clamp(s)

\* A resync has just clamped the cursor onto the only column of its board,
\* which is empty.
C23_Witness ==
    /\ last = "Resync"
    /\ Len(app.board.columns) = 1
    /\ app.board.columns[1].cards = <<>>
    /\ <<app.col, app.row>> = <<0, 0>>

----------------------------------------------------------------------------
(* C24 *)

\* C24: for a valid cursor and every delta of -MaxDelta..MaxDelta, focus gives
\* col = max(0, min(col + delta, columns - 1)) and the row clamped to the new
\* column, select gives row = max(0, min(row + delta, len - 1)); on a board
\* without columns focus gives (0, 0), on an empty focused column select gives
\* row 0; neither wraps around and neither changes the board.
C24_FocusSelectSaturate ==
    \A delta \in (0 - MaxDelta)..MaxDelta :
      LET f == focus(app, delta)
          s == select(app, delta)
          n == Len(app.board.columns)
      IN  /\ f.board = app.board
          /\ s.board = app.board
          /\ s.col = app.col
          /\ IF n = 0
             THEN <<f.col, f.row>> = <<0, 0>> /\ s.row = 0
             ELSE /\ f.col = Max(0, Min(app.col + delta, n - 1))
                  /\ LET len == Len(app.board.columns[f.col + 1].cards)
                     IN  f.row = IF len = 0 THEN 0 ELSE Min(app.row, len - 1)
                  /\ LET len == Len(app.board.columns[app.col + 1].cards)
                     IN  s.row = IF len = 0 THEN 0
                                 ELSE Max(0, Min(app.row + delta, len - 1))

\* A navigation key has just left the cursor on the first card of a column in
\* the middle of the board that holds every card: each of focus and select
\* can go either way from here.
C24_Witness ==
    /\ last = "Nav"
    /\ Len(app.board.columns) = MaxCols
    /\ app.col = 1
    /\ app.row = 0
    /\ Len(app.board.columns[2].cards) = Cardinality(CardIds)

----------------------------------------------------------------------------
(* C25 *)

\* C25: a move command read while nothing is in flight and nothing is queued
\* applies the optimistic move; if that returned a move, exactly one thread is
\* created, for exactly that (card id, destination column id), its Receiver
\* is held and the queue stays empty; if it returned None, no thread is
\* created, nothing is queued and the in-flight slot stays empty.
C25_IdleMoveDispatches ==
    [][ \A d \in {-1, 1} :
          ( /\ Reads({IF d = -1 THEN "MoveLeft" ELSE "MoveRight"})
            /\ ~quitting
            /\ move_rx = 0
            /\ move_queue = <<>> )
          => LET r == optimistic_move(app, d)
             IN  /\ app'.board = r.app.board
                 /\ <<app'.col, app'.row>> = <<r.app.col, r.app.row>>
                 /\ move_queue' = <<>>
                 /\ IF r.ret.some
                    THEN /\ move_rx' # 0
                         /\ {w \in WorkerIds : Spawned(w)} = {move_rx'}
                         /\ workers'[move_rx'].card_id = r.ret.card_id
                         /\ workers'[move_rx'].dst = r.ret.dst
                         /\ chan'[move_rx'] = EmptyChan
                         /\ app'.banner = Banner("Moving...", 0, <<>>)
                    ELSE /\ move_rx' = 0
                         /\ workers' = workers
                         /\ app' = app
      ]_vars

\* A MoveRight read while Idle has just been dispatched: its thread has not
\* yet touched the store, the queue is empty and the notice says Moving.
C25_Witness ==
    /\ last = "MoveRight"
    /\ pc = "recv"
    /\ move_rx # 0
    /\ workers[move_rx].pc = "move"
    /\ workers[move_rx].dst = app.board.columns[app.col + 1].id
    /\ move_queue = <<>>
    /\ app.banner = Banner("Moving...", 0, <<>>)

----------------------------------------------------------------------------
(* C26 *)

\* C26: a move command read, not quitting, while a move is in flight and the
\* queue is below capacity applies the optimistic move at once; if that
\* returned a move, exactly that (card id, destination column id) is appended
\* at the tail of the queue, which grows by one, the in-flight slot, its
\* channel and the threads are untouched and the notice counts the new queue
\* length; if it returned None nothing is enqueued.
C26_BusyMoveEnqueues ==
    [][ \A d \in {-1, 1} :
          ( /\ Reads({IF d = -1 THEN "MoveLeft" ELSE "MoveRight"})
            /\ ~quitting
            /\ move_rx # 0
            /\ Len(move_queue) < MAX_QUEUE_SIZE )
          => LET r == optimistic_move(app, d)
             IN  /\ app'.board = r.app.board
                 /\ <<app'.col, app'.row>> = <<r.app.col, r.app.row>>
                 /\ move_rx' = move_rx
                 /\ workers' = workers
                 /\ chan' = chan
                 /\ IF r.ret.some
                    THEN /\ move_queue' = Append(move_queue, <<r.ret.card_id, r.ret.dst>>)
                         /\ Len(move_queue') = Len(move_queue) + 1
                         /\ app'.banner =
                              Banner("Moving... ({} queued)", Len(move_queue'), <<>>)
                    ELSE /\ move_queue' = move_queue
                         /\ app'.banner = app.banner
      ]_vars

\* A MoveLeft has just been queued behind another queued move while the thread
\* of the move in flight has not finished; the notice counts the queue.
C26_Witness ==
    /\ last = "MoveLeft"
    /\ pc = "recv"
    /\ ~quitting
    /\ move_rx # 0
    /\ workers[move_rx].pc # "free"
    /\ Len(move_queue) = MAX_QUEUE_SIZE
    /\ move_queue[Len(move_queue)][2] = app.board.columns[app.col + 1].id
    /\ app.banner = Banner("Moving... ({} queued)", MAX_QUEUE_SIZE, <<>>)

----------------------------------------------------------------------------
(* C27 *)

\* What a quit request does in `run`: with a move in flight or queued it sets
\* quitting and goes on, otherwise it leaves the loop.
QuitRequested ==
    /\ IF move_rx # 0 \/ move_queue # <<>>
       THEN quitting' /\ pc' = "recv"
       ELSE pc' = "exited"
    /\ app'.detail_open = app.detail_open
    /\ app'.board = app.board
    /\ <<app'.col, app'.row>> = <<app.col, app.row>>
    /\ UNCHANGED <<move_rx, move_queue, workers, chan, store>>

\* C27: CloseOrQuit read while the detail view is open closes it and requests
\* no quit: the loop neither exits nor starts quitting, and nothing else
\* changes; read while the detail view is closed it requests quit exactly as
\* Quit does; Quit requests quit whether the detail view is open or not.
C27_CloseOrQuitClosesFirst ==
    [][ /\ (Reads({"CloseOrQuit"}) /\ app.detail_open)
           => /\ app' = [app EXCEPT !.detail_open = FALSE]
              /\ pc' = "recv"
              /\ UNCHANGED <<quitting, move_rx, move_queue, workers, chan, store>>
        /\ (Reads({"CloseOrQuit"}) /\ ~app.detail_open) => QuitRequested
        /\ Reads({"Quit"}) => QuitRequested
      ]_vars

\* CloseOrQuit has just been read with a move in flight and a move queued, and
\* the loop is not quitting: the key closed the detail view.
C27_Witness ==
    /\ last = "CloseOrQuit"
    /\ pc = "recv"
    /\ ~quitting
    /\ move_rx # 0
    /\ move_queue # <<>>
    /\ ~app.detail_open

----------------------------------------------------------------------------
(* C28 *)

\* The cards load_board reads for column col_id of directory st.
LoadedCards(st, col_id) ==
    LET b == load_board(st, FALSE).board
    IN  b.columns[CHOOSE i \in 1..Len(ColumnIds) : ColumnIds[i] = col_id].cards

\* C28: after a successful move_card(card, dst) on a consistent directory,
\* load_board succeeds and shows the card as the last card of column dst and
\* in no other column, every other card in the column and at the relative
\* position it had; when the card is in dst already, move_card succeeds and
\* leaves the directory as it is.
C28_MoveThenLoad ==
    \A card \in StoreCardIds, dst \in ColSet :
      LET r == move_card(store, card, dst, "none")
          src == find_card_column(store, card)
      IN  (Consistent(store) /\ src # "")
          => /\ r.ok
             /\ load_board(r.store, FALSE).ok
             /\ Consistent(r.store)
             /\ IF src = dst THEN r.store = store
                ELSE /\ LoadedCards(r.store, dst) = Append(LoadedCards(store, dst), card)
                     /\ LoadedCards(r.store, src)
                          = SelectSeq(LoadedCards(store, src), LAMBDA x : x # card)
                     /\ \A c \in ColSet \ {src, dst} :
                          LoadedCards(r.store, c) = LoadedCards(store, c)
                     /\ \A c \in ColSet \ {dst} : card \notin SeqToSet(LoadedCards(r.store, c))

\* move_card has just moved a card out of a column that holds the two other
\* cards into a column that held none: the directory is consistent and the
\* card is the only, hence last, card of its new column.
C28_Witness ==
    /\ last.op = "move_card"
    /\ last.ok
    /\ last.src # last.dst
    /\ Consistent(store)
    /\ LoadedCards(store, last.dst) = <<last.card_id>>
    /\ Len(LoadedCards(store, last.src)) = Cardinality(StoreCardIds) - 1

----------------------------------------------------------------------------
(* C29 *)

\* C29: move_card of a card id that has a file in no column fails with
\* ProviderError::NotFound carrying that id and leaves the directory as it
\* was, whichever later file operation would have been refused.
C29_MissingCardNotFound ==
    \A card \in StoreCardIds, dst \in ColSet, fail_at \in FailPoints \ {"list_columns"} :
      (\A c \in ColSet : card \notin store.files[c])
      => move_card(store, card, dst, fail_at)
           = [ok |-> FALSE, store |-> store, err |-> NotFound(card)]

\* move_card has just been refused for a card that is in no column of a
\* directory that holds other cards.
C29_Witness ==
    /\ last.op = "move_card"
    /\ ~last.ok
    /\ last.src = ""
    /\ last.err = NotFound(last.card_id)
    /\ \A c \in ColSet : last.card_id \notin store.files[c]
    /\ store.files[last.dst] # {}

----------------------------------------------------------------------------
(* C30 *)

\* C30: a worker thread changes nothing of the foreground (board, cursor,
\* banner, queue, in-flight slot, quitting), and the foreground's own store
\* operation, the load_board of Refresh, runs only while no worker thread is
\* unfinished.
C30_NoSharedAccess ==
    [][ /\ (\E w \in WorkerIds : workers'[w] # workers[w] /\ workers[w].pc # "free")
           => UNCHANGED <<app, move_queue, move_rx, quitting, pc>>
        /\ (Reads({"Refresh"}) /\ ~quitting) => Live = {}
      ]_vars

----------------------------------------------------------------------------
(* C31 *)

\* C31: every outcome being Confirmed, whenever nothing is in flight and
\* nothing is queued the in-memory board places every card in the column, and
\* at the position in it, that the store holds, after any interleaving of
\* move, navigation and Refresh commands with the outcomes.
C31_IdleBoardIsStore ==
    (move_rx = 0 /\ move_queue = <<>>) => app.board = load_board(store, FALSE).board

----------------------------------------------------------------------------
(* C32 *)

\* C32: a Refresh key, whether its load succeeds or fails, leaves the queue,
\* the in-flight slot, the threads and the channel as they were.  Not
\* quitting, either the load succeeded: the board is the loaded snapshot, the
\* cursor is (0,0) and the notice is cleared; or it failed: board and cursor
\* are unchanged and a "Refresh failed" notice is set.  While quitting the
\* key changes nothing of the App.
C32_RefreshFrame ==
    [][Reads({"Refresh"}) =>
         /\ UNCHANGED <<move_rx, move_queue, quitting, workers, chan, store>>
         /\ quitting => app' = app
         /\ ~quitting =>
              \/ /\ app'.board = load_board(store, FALSE).board
                 /\ <<app'.col, app'.row>> = <<0, 0>>
                 /\ app'.banner = NoBanner
              \/ /\ app'.board = app.board
                 /\ <<app'.col, app'.row>> = <<app.col, app.row>>
                 /\ app'.banner.text = "Refresh failed: {e}"]_vars

\* A Refresh has succeeded while a move was in flight and the queue was full:
\* the notice is cleared, the pipeline is as full as before.
C32_Witness ==
    /\ last = "Refresh"
    /\ pc = "recv"
    /\ ~quitting
    /\ app.banner = NoBanner
    /\ move_rx # 0
    /\ Len(move_queue) = MAX_QUEUE_SIZE

----------------------------------------------------------------------------
(* C33 *)

\* How many times the card `id` occurs on the board `columns`.
CountOf(columns, id) ==
    Cardinality({<<i, k>> \in (1..Len(columns)) \X (1..Cardinality(StoreCardIds)) :
                   /\ k <= Len(columns[i].cards)
                   /\ columns[i].cards[k] = id})

\* The card x stands before the card y in the sequence q.
Precedes(q, x, y) ==
    \E i, j \in 1..Len(q) : i < j /\ q[i] = x /\ q[j] = y

\* C33: for d in {-1, 1}, optimistic_move(d) leaves the number of columns and
\* their ids in their order, leaves each card id on the board as many times
\* as before, leaves every column but the focused one and its neighbour in
\* direction d as it was, and in these two columns any two cards that are in
\* the column before and after stand in the same order; the only card that
\* leaves a column is the one at the cursor and the only card that enters one
\* is that card, behind the others.
C33_MoveFrame ==
    \A d \in {-1, 1} :
      LET r == optimistic_move(app, d)
          old == app.board.columns
          new == r.app.board.columns
          src == app.col + 1
          dst == app.col + d + 1
      IN  /\ Len(new) = Len(old)
          /\ \A i \in 1..Len(old) : new[i].id = old[i].id
          /\ \A id \in StoreCardIds : CountOf(new, id) = CountOf(old, id)
          /\ \A i \in 1..Len(old) : i \notin {src, dst} => new[i] = old[i]
          /\ \A i \in 1..Len(old) :
               \A x, y \in SeqToSet(old[i].cards) \cap SeqToSet(new[i].cards) :
                 Precedes(new[i].cards, x, y) <=> Precedes(old[i].cards, x, y)
          /\ r.ret.some =>
               /\ SeqToSet(new[src].cards) = SeqToSet(old[src].cards) \ {r.ret.card_id}
               /\ SeqToSet(new[dst].cards) = SeqToSet(old[dst].cards) \cup {r.ret.card_id}
               /\ Len(new[src].cards) = Len(old[src].cards) - 1
               /\ Len(new[dst].cards) = Len(old[dst].cards) + 1
               /\ new[dst].cards[Len(new[dst].cards)] = r.ret.card_id
          /\ ~r.ret.some => new = old

\* optimistic_move(1) has just taken one of three cards out of a column:
\* two cards stay in the source column, the card is alone in the next one.
C33_Witness ==
    /\ last = "MoveRight"
    /\ app.col >= 1
    /\ Len(app.board.columns[app.col].cards) = Cardinality(StoreCardIds) - 1
    /\ Len(app.board.columns[app.col + 1].cards) = 1

----------------------------------------------------------------------------
(* C34 *)

\* The moves not yet finished: the queued ones and the one in flight.
Pending == Len(move_queue) + (IF move_rx # 0 THEN 1 ELSE 0)

\* The notice update_quit_banner shows for n pending moves.
QuitNotice(n) ==
    IF n = 0 THEN NoBanner
    ELSE Banner("Finishing {pending} pending moves before quit...", n, <<>>)

\* C34: while quitting, in every state of the loop and so after every handled
\* outcome and every quit request, the notice is "Finishing N pending moves
\* before quit..." with N = length of the queue + (1 if a move is in flight,
\* else 0), and there is no notice when N = 0; the step that requests quit
\* with a move in flight sets the notice with N = length of the queue + 1.
C34_QuitNotice ==
    /\ [](quitting => app.banner = QuitNotice(Pending))
    /\ [][(Reads({"Quit", "CloseOrQuit"}) /\ ~quitting /\ quitting' /\ move_rx # 0) =>
            app'.banner = Banner("Finishing {pending} pending moves before quit...",
                                 Len(move_queue) + 1, <<>>)]_vars

\* Quit has just been requested with a move in flight and a full queue.
C34_Witness ==
    /\ last = "Quit"
    /\ quitting
    /\ move_rx # 0
    /\ app.banner.n = MAX_QUEUE_SIZE + 1

----------------------------------------------------------------------------
(* C35 *)

\* The key that asks for a move in direction d.
MoveKey(d) == IF d = -1 THEN "MoveLeft" ELSE "MoveRight"

\* C35: a step creates at most one thread, and its Receiver is the one held.
\* A thread is created either in the step of a move key, for the pair that
\* the optimistic_move of that step returned and applied to the board, the
\* queue being untouched, or in the step of a Confirmed outcome, for the head
\* of the queue, which is popped in that step.  A pair enters the queue only
\* in the step of a move key, as the pair the optimistic_move of that step
\* returned, without a thread being created; it leaves the queue only by being
\* popped for its thread or by a failure outcome clearing the queue.  After
\* an outcome has been handled, the thread that produced it is not in flight:
\* the slot is empty or holds a thread created in that step.
C35_DispatchedOnce ==
    [][ /\ Cardinality({w \in WorkerIds : Spawned(w)}) <= 1
        /\ \A w \in WorkerIds :
             Spawned(w) =>
               /\ move_rx' = w
               /\ \/ \E d \in {-1, 1} :
                       LET r == optimistic_move(app, d)
                       IN  /\ Reads({MoveKey(d)})
                           /\ r.ret = SomeMove(workers'[w].card_id, workers'[w].dst)
                           /\ app'.board = r.app.board
                           /\ move_queue' = move_queue
                  \/ /\ Handles("OkNone")
                     /\ move_queue # <<>>
                     /\ <<workers'[w].card_id, workers'[w].dst>> = Head(move_queue)
                     /\ move_queue' = Tail(move_queue)
        /\ move_queue' # move_queue =>
             \/ \E d \in {-1, 1} :
                  LET r == optimistic_move(app, d)
                  IN  /\ Reads({MoveKey(d)})
                      /\ r.ret.some
                      /\ move_queue' = Append(move_queue, <<r.ret.card_id, r.ret.dst>>)
                      /\ app'.board = r.app.board
                      /\ workers' = workers
             \/ /\ Handles("OkNone")
                /\ move_queue' = Tail(move_queue)
                /\ move_rx' # 0
                /\ Spawned(move_rx')
             \/ /\ Handles("OkSome") \/ Handles("Err")
                /\ move_queue' = <<>>
        /\ (\E tag \in {"OkNone", "OkSome", "Err", "Disconnected"} : Handles(tag)) =>
             /\ workers[move_rx].pc = "free"
             /\ move_rx' = 0 \/ Spawned(move_rx')
      ]_vars

\* The last queued move has just been dispatched by a Confirmed outcome: it
\* is in flight and the queue holds it no more.
C35_Witness ==
    /\ last = "Confirmed"
    /\ pc = "input"
    /\ move_rx # 0
    /\ workers[move_rx].pc = "move"
    /\ move_queue = <<>>

----------------------------------------------------------------------------
(* C36 *)

\* The steps of move_card that change the directory.
MoveSteps == {"rename", "order_remove", "order_append"}

\* C36: on a consistent directory, move_card(card, dst) of a card that is in
\* another column, one of its steps (the rename of the card file, the removal
\* from the order of the source, the append to the order of the destination)
\* being refused, fails and leaves the directory as it was: the card is
\* listed in exactly one column, a following load_board succeeds, and it
\* shows the card in its source column.
C36_FailedMoveKeepsStore ==
    \A card \in StoreCardIds, dst \in ColSet, fail_at \in MoveSteps :
      LET r == move_card(store, card, dst, fail_at)
          src == find_card_column(store, card)
      IN  (Consistent(store) /\ src # "" /\ src # dst)
          => /\ ~r.ok
             /\ r.store = store
             /\ Cardinality({c \in ColSet : card \in SeqToSet(r.store.order[c])}) = 1
             /\ load_board(r.store, FALSE).ok
             /\ card \in SeqToSet(LoadedCards(r.store, src))

====
